---------------------------- MODULE Spec2Model ----------------------------
(***************************************************************************)
(* A model of the suro interpreter: the lexer (src/src/token.rs), the      *)
(* recursive-descent parser (src/src/parser.rs), the scope chain           *)
(* (src/src/scope.rs) and the tree-walking evaluator                       *)
(* (src/src/interpreter.rs, src/src/builtins.rs), driven as main.rs        *)
(* drives them: tokenize, then parse, then eval_program.                   *)
(*                                                                         *)
(* Text is a sequence of one-character strings; offsets are 0-based as in  *)
(* the Rust code (character k of the text is s[k + 1]).                    *)
(***************************************************************************)
EXTENDS Integers, Sequences, FiniteSets, TLC

VARIABLES
    phase,          \* where main() is: "lex", "lex_error", "parse", "parse_error",
                    \* "parsed", "eval", "done", "abort"
    characters,     \* work(): the program text being tokenized
    str_index,      \* work(): the cursor, a 0-based offset into characters
    token_list,     \* work(): the tokens emitted so far; then Parser.tokens
    index,          \* Parser.index
    program,        \* the Program returned by Parser::parse (its body)
    parse_err,      \* which panic ended the parse ("none" when it has not failed)
    current_scope,  \* Interpreter.current_scope: the chain of frames, root first
    ctl,            \* the evaluator's position: the node being evaluated or the value returned
    kont,           \* the evaluator's call stack: one record per suspended Rust call
    result,         \* the Object returned by eval_program
    error,          \* which panic ended the evaluation ("none" when it has not failed)
    output,         \* the lines s_print has written to standard output
    last_block      \* the last eval_block_vec call that returned: the scope depth when
                    \* it was entered and when it returned, and the path it returned by

vars == <<phase, characters, str_index, token_list, index, program, parse_err,
          current_scope, ctl, kont, result, error, output, last_block>>

lexvars == <<characters, str_index, token_list>>
parsevars == <<index, program, parse_err>>
evalvars == <<current_scope, ctl, kont, result, error, output, last_block>>

-----------------------------------------------------------------------------
(* Characters and character classes of the regular expressions in tokenize. *)

Digits == {"0", "1", "2", "3", "4", "5", "6", "7", "8", "9"}

Letters ==
    {"a", "b", "c", "d", "e", "f", "g", "h", "i", "j", "k", "l", "m",
     "n", "o", "p", "q", "r", "s", "t", "u", "v", "w", "x", "y", "z",
     "A", "B", "C", "D", "E", "F", "G", "H", "I", "J", "K", "L", "M",
     "N", "O", "P", "Q", "R", "S", "T", "U", "V", "W", "X", "Y", "Z"}

\* [A-Za-z_]
IdentStart == Letters \cup {"_"}

\* [A-Za-z0-9_\-]
IdentChar == Letters \cup Digits \cup {"_", "-"}

\* [ \n\t]
SpaceChar == {" ", "\n", "\t"}

\* the text of a keyword, as characters
Kw(w) ==
    CASE w = "call"   -> <<"c", "a", "l", "l">>
      [] w = "set"    -> <<"s", "e", "t">>
      [] w = "change" -> <<"c", "h", "a", "n", "g", "e">>
      [] w = "return" -> <<"r", "e", "t", "u", "r", "n">>
      [] w = "to"     -> <<"t", "o">>
      [] w = "with"   -> <<"w", "i", "t", "h">>
      [] w = "if"     -> <<"i", "f">>
      [] w = "then"   -> <<"t", "h", "e", "n">>
      [] w = "else"   -> <<"e", "l", "s", "e">>
      [] w = "true"   -> <<"t", "r", "u", "e">>
      [] w = "false"  -> <<"f", "a", "l", "s", "e">>
      [] w = "func"   -> <<"f", "u", "n", "c">>
      [] w = "takes"  -> <<"t", "a", "k", "e", "s">>

\* The rule table of tokenize, in its order.  shape names the form of the
\* regular expression, text its literal part.
expressions ==
    << [shape |-> "line_comment", text |-> <<"-", "-">>, type |-> "Comment"],
       [shape |-> "quoted",  text |-> <<"\"">>,     type |-> "String"],
       [shape |-> "quoted",  text |-> <<"'">>,      type |-> "String"],
       [shape |-> "digits",  text |-> <<>>,         type |-> "Integer"],
       [shape |-> "literal", text |-> <<";">>,      type |-> "Terminator"],
       [shape |-> "keyword", text |-> Kw("call"),   type |-> "FunctionCall"],
       [shape |-> "keyword", text |-> Kw("set"),    type |-> "Assignment"],
       [shape |-> "keyword", text |-> Kw("change"), type |-> "Change"],
       [shape |-> "keyword", text |-> Kw("return"), type |-> "Return"],
       [shape |-> "keyword", text |-> Kw("to"),     type |-> "AssignmentOp"],
       [shape |-> "keyword", text |-> Kw("with"),   type |-> "ParameterList"],
       [shape |-> "keyword", text |-> Kw("if"),     type |-> "If"],
       [shape |-> "keyword", text |-> Kw("then"),   type |-> "Then"],
       [shape |-> "keyword", text |-> Kw("else"),   type |-> "Else"],
       [shape |-> "keyword", text |-> Kw("true"),   type |-> "True"],
       [shape |-> "keyword", text |-> Kw("false"),  type |-> "False"],
       [shape |-> "keyword", text |-> Kw("func"),   type |-> "FuncDec"],
       [shape |-> "keyword", text |-> Kw("takes"),  type |-> "FuncParams"],
       [shape |-> "literal", text |-> <<"(">>,      type |-> "OpenGrouper"],
       [shape |-> "literal", text |-> <<")">>,      type |-> "CloseGrouper"],
       [shape |-> "literal", text |-> <<"{">>,      type |-> "BlockStart"],
       [shape |-> "literal", text |-> <<"}">>,      type |-> "BlockEnd"],
       [shape |-> "literal", text |-> <<",">>,      type |-> "Separator"],
       [shape |-> "literal", text |-> <<"+">>,      type |-> "Add"],
       [shape |-> "literal", text |-> <<"-">>,      type |-> "Sub"],
       [shape |-> "literal", text |-> <<"*">>,      type |-> "Mul"],
       [shape |-> "literal", text |-> <<"/">>,      type |-> "Div"],
       [shape |-> "ident",   text |-> <<>>,         type |-> "Ident"],
       [shape |-> "space",   text |-> <<>>,         type |-> "Whitespace"] >>

-----------------------------------------------------------------------------
(* Matching one regular expression at offset `at` of text s.  Every         *)
(* expression is anchored (^), so a match starts at the cursor.             *)

\* whether text w occurs in s at offset `at`
StartsWith(s, at, w) ==
    /\ at + Len(w) <= Len(s)
    /\ \A k \in 1..Len(w) : s[at + k] = w[k]

\* the length of the longest run of characters of class S at offset `at` (greedy + or *)
RunLen(s, at, S) ==
    CHOOSE n \in 0..(Len(s) - at) :
        /\ \A k \in 1..n : s[at + k] \in S
        /\ (at + n = Len(s) \/ s[at + n + 1] \notin S)

\* the offset from `at` (1-based count) of the first character of class S
\* at or after relative position `from`, 0 when there is none
FirstOf(s, at, from, S) ==
    LET hits == {k \in from..(Len(s) - at) : s[at + k] \in S}
    IN  IF hits = {} THEN 0
        ELSE CHOOSE k \in hits : \A j \in hits : k <= j

NoMatch == [matched |-> FALSE, groups |-> 1, end0 |-> 0, end1 |-> 0]

\* regex.captures(&characters[at..]): whether the expression matches, how many
\* groups it has (the whole match counts as one), and where group 0 and
\* group 1 end, relative to the cursor.
Captures(rule, s, at) ==
    CASE rule.shape = "line_comment" ->
            \* ^--.*?\n : `.` does not match a newline, so the match runs to the
            \* first newline, and there must be one
            LET nl == FirstOf(s, at, 3, {"\n"})
            IN  IF StartsWith(s, at, rule.text) /\ nl > 0
                THEN [matched |-> TRUE, groups |-> 1, end0 |-> nl, end1 |-> 0]
                ELSE NoMatch
      [] rule.shape = "quoted" ->
            \* ^".*?" : lazy, on one line: the first closing quote, with no newline before it
            LET stop == FirstOf(s, at, 2, {rule.text[1], "\n"})
            IN  IF StartsWith(s, at, rule.text) /\ stop > 0 /\ s[at + stop] = rule.text[1]
                THEN [matched |-> TRUE, groups |-> 1, end0 |-> stop, end1 |-> 0]
                ELSE NoMatch
      [] rule.shape = "digits" ->
            LET n == RunLen(s, at, Digits)
            IN  IF n > 0 THEN [matched |-> TRUE, groups |-> 1, end0 |-> n, end1 |-> 0]
                ELSE NoMatch
      [] rule.shape = "literal" ->
            IF StartsWith(s, at, rule.text)
            THEN [matched |-> TRUE, groups |-> 1, end0 |-> Len(rule.text), end1 |-> 0]
            ELSE NoMatch
      [] rule.shape = "keyword" ->
            \* ^(kw)[^A-Za-z0-9_\-] : group 1 is the keyword, the whole match one more
            LET n == Len(rule.text)
            IN  IF /\ StartsWith(s, at, rule.text)
                   /\ at + n < Len(s)
                   /\ s[at + n + 1] \notin IdentChar
                THEN [matched |-> TRUE, groups |-> 2, end0 |-> n + 1, end1 |-> n]
                ELSE NoMatch
      [] rule.shape = "ident" ->
            IF at < Len(s) /\ s[at + 1] \in IdentStart
            THEN [matched |-> TRUE, groups |-> 1,
                  end0 |-> 1 + RunLen(s, at + 1, IdentChar), end1 |-> 0]
            ELSE NoMatch
      [] rule.shape = "space" ->
            LET n == RunLen(s, at, SpaceChar)
            IN  IF n > 0 THEN [matched |-> TRUE, groups |-> 1, end0 |-> n, end1 |-> 0]
                ELSE NoMatch

\* ReMatchEnd with re_match.start() taken for re_match.end()
ReMatchStart(caps) == 0

\* ReMatchEnd with group 0 taken whatever the number of groups
ReMatchWhole(caps) == caps.end0

\* work(): re_match is group 0 of a one-group expression and group 1 otherwise;
\* the result is re_match.end()
ReMatchEnd(caps) == IF caps.groups = 1 THEN caps.end0 ELSE caps.end1

\* work(): the rules are tried in order and the first that matches is taken
\* (0 when none matches)
FirstRule(s, at) ==
    LET hits == {r \in 1..Len(expressions) : Captures(expressions[r], s, at).matched}
    IN  IF hits = {} THEN 0
        ELSE CHOOSE r \in hits : \A q \in hits : r <= q

Token(type, str) == [token_type |-> type, str |-> str]

EOFToken == Token("EOF", <<>>)

\* work(): comments and whitespace are not added to the token list
Emit(list, type, str) ==
    IF type \in {"Comment", "Whitespace"} THEN list ELSE Append(list, Token(type, str))

-----------------------------------------------------------------------------
(* The parser.  Every parse function takes the token vector and the parser  *)
(* index and returns a record: ok (FALSE when the Rust function panics),    *)
(* node (what it returns), idx (the parser index afterwards), err (which    *)
(* panic).  An Option is a sequence of length 0 or 1.                       *)

NoNode == [kind |-> "none"]

POk(node, i) == [ok |-> TRUE, node |-> node, idx |-> i, err |-> "none"]

PFail(i, why) == [ok |-> FALSE, node |-> NoNode, idx |-> i, err |-> why]

I32Max == 2147483647

I32Min == -2147483647 - 1

DigitVal(c) ==
    CASE c = "0" -> 0 [] c = "1" -> 1 [] c = "2" -> 2 [] c = "3" -> 3 [] c = "4" -> 4
      [] c = "5" -> 5 [] c = "6" -> 6 [] c = "7" -> 7 [] c = "8" -> 8 [] c = "9" -> 9

\* str.parse::<i32>() of a digit string: <<n>> or, when the value does not
\* fit 32 bits, <<>> (Err)
RECURSIVE ParseI32From(_, _, _)
ParseI32From(str, k, acc) ==
    IF k > Len(str) THEN <<acc>>
    ELSE LET d == DigitVal(str[k])
         IN  IF acc > (I32Max - d) \div 10 THEN <<>>
             ELSE ParseI32From(str, k + 1, acc * 10 + d)

ParseI32(str) == ParseI32From(str, 1, 0)

\* Parser::current
current(toks, i) == IF i < Len(toks) THEN <<toks[i + 1]>> ELSE <<>>

\* Parser::current_unwrap, Parser::consume_unwrap: the token at the index
\* (consume_unwrap also increments it); a panic when the index is past the end
consume_unwrap(toks, i) ==
    IF current(toks, i) = <<>> THEN PFail(i, "ran_out")
    ELSE POk(toks[i + 1], i + 1)

\* Parser::expect_consume: the index is incremented before the kind is compared
expect_consume(toks, i, consume_type) ==
    LET got == consume_unwrap(toks, i)
    IN  IF ~got.ok THEN got
        ELSE IF got.node.token_type # consume_type THEN PFail(got.idx, "expected")
        ELSE got

\* the kind of the current token, "" past the end (where current_unwrap panics)
CurType(toks, i) == IF i < Len(toks) THEN toks[i + 1].token_type ELSE ""

\* The Rust parse functions call one another directly.  Here every such call
\* is Call(fn, ...), defined after them, so that the operators form a single
\* recursion; acc carries the vectors a loop has built so far.
RECURSIVE Call(_, _, _, _)


\* Parser::parse_line
parse_line(toks, i) ==
    LET statement == Call("parse_statement", toks, i, <<>>)
    IN  IF ~statement.ok THEN statement
        ELSE LET t == expect_consume(toks, statement.idx, "Terminator")
             IN  IF ~t.ok THEN t ELSE POk(statement.node, t.idx)

\* Parser::parse_block, the while loop: lst is the statements pushed so far
parse_block_lines(toks, i, lst) ==
    IF current(toks, i) = <<>> THEN PFail(i, "ran_out")
    ELSE IF CurType(toks, i) # "BlockEnd"
    THEN LET line == parse_line(toks, i)
         IN  IF ~line.ok THEN line
             ELSE Call("parse_block_lines", toks, line.idx, Append(lst, line.node))
    ELSE LET e == expect_consume(toks, i, "BlockEnd")
         IN  IF ~e.ok THEN e
             ELSE POk([kind |-> "BlockStatement", statements |-> lst], e.idx)

\* Parser::parse_block
parse_block(toks, i) ==
    LET s == expect_consume(toks, i, "BlockStart")
    IN  IF ~s.ok THEN s ELSE Call("parse_block_lines", toks, s.idx, <<>>)

\* Parser::parse_statement, the Assignment and Change arms
parse_assign(toks, i, change) ==
    LET kw == consume_unwrap(toks, i)
        id == expect_consume(toks, kw.idx, "Ident")
        op == expect_consume(toks, id.idx, "AssignmentOp")
        expr == Call("parse_expr", toks, op.idx, <<>>)
    IN  IF ~kw.ok THEN kw
        ELSE IF ~id.ok THEN id
        ELSE IF ~op.ok THEN op
        ELSE IF ~expr.ok THEN expr
        ELSE POk([kind |-> "Assign", ident |-> id.node.str, expr |-> expr.node,
                  change |-> change], expr.idx)

\* Parser::parse_statement
parse_statement(toks, i) ==
    IF current(toks, i) = <<>> THEN PFail(i, "ran_out")
    ELSE LET t == CurType(toks, i)
         IN  CASE t = "Assignment" -> parse_assign(toks, i, FALSE)
               [] t = "Change" -> parse_assign(toks, i, TRUE)
               [] t = "Return" ->
                    LET inner == Call("parse_statement", toks, i + 1, <<>>)
                    IN  IF ~inner.ok THEN inner
                        ELSE POk([kind |-> "Return", statement |-> inner.node], inner.idx)
               [] t = "BlockStart" -> Call("parse_block", toks, i, <<>>)
               [] t = "If" ->
                    LET first == Call("parse_condition_tuple", toks, i, <<>>)
                    IN  IF ~first.ok THEN first
                        ELSE Call("parse_conditions", toks, first.idx, <<first.node>>)
               [] OTHER ->
                    LET expr == Call("parse_expr", toks, i, <<>>)
                    IN  IF ~expr.ok THEN expr
                        ELSE POk([kind |-> "Expr", expr |-> expr.node], expr.idx)

\* Parser::parse_statement, the loop of the If arm: one more tuple per Else
parse_conditions(toks, i, val) ==
    IF current(toks, i) = <<>> THEN PFail(i, "ran_out")
    ELSE IF CurType(toks, i) = "Else"
    THEN LET next == Call("parse_condition_tuple", toks, i, <<>>)
         IN  IF ~next.ok THEN next
             ELSE Call("parse_conditions", toks, next.idx, Append(val, next.node))
    ELSE POk([kind |-> "If", conditions |-> val], i)

\* Parser::parse_condition_tuple: (Option<condition>, consequent)
parse_condition_tuple(toks, i) ==
    IF current(toks, i) = <<>> THEN PFail(i, "ran_out")
    ELSE LET t == CurType(toks, i)
         IN  CASE t = "If" ->
                    LET condition == Call("parse_statement", toks, i + 1, <<>>)
                        then == expect_consume(toks, condition.idx, "Then")
                        consequent == Call("parse_statement", toks, then.idx, <<>>)
                    IN  IF ~condition.ok THEN condition
                        ELSE IF ~then.ok THEN then
                        ELSE IF ~consequent.ok THEN consequent
                        ELSE POk([cond |-> <<condition.node>>,
                                  consequent |-> consequent.node], consequent.idx)
               [] t = "Else" ->
                    IF current(toks, i + 1) = <<>> THEN PFail(i + 1, "ran_out")
                    ELSE IF CurType(toks, i + 1) = "If"
                    THEN Call("parse_condition_tuple", toks, i + 1, <<>>)
                    ELSE LET consequent == Call("parse_statement", toks, i + 1, <<>>)
                         IN  IF ~consequent.ok THEN consequent
                             ELSE POk([cond |-> <<>>, consequent |-> consequent.node],
                                      consequent.idx)
               [] OTHER -> PFail(i, "condition")

\* Parser::parse_expr, the loop: terms and ops are the vectors built so far
parse_expr_loop(toks, i, terms, ops) ==
    IF current(toks, i) = <<>> THEN PFail(i, "ran_out")
    ELSE IF CurType(toks, i) \in {"Add", "Sub"}
    THEN LET term == Call("parse_term", toks, i + 1, <<>>)
         IN  IF ~term.ok THEN term
             ELSE Call("parse_expr_loop", toks, term.idx,
                       <<Append(terms, term.node), Append(ops, CurType(toks, i))>>)
    ELSE POk([terms |-> terms, ops |-> ops], i)

\* Parser::parse_expr
parse_expr(toks, i) ==
    LET term == Call("parse_term", toks, i, <<>>)
    IN  IF ~term.ok THEN term
        ELSE Call("parse_expr_loop", toks, term.idx, <<(<<term.node>>), <<>>>>)

\* Parser::parse_term, the loop
parse_term_loop(toks, i, factors, ops) ==
    IF current(toks, i) = <<>> THEN PFail(i, "ran_out")
    ELSE IF CurType(toks, i) \in {"Mul", "Div"}
    THEN LET factor == Call("parse_factor", toks, i + 1, <<>>)
         IN  IF ~factor.ok THEN factor
             ELSE Call("parse_term_loop", toks, factor.idx,
                       <<Append(factors, factor.node), Append(ops, CurType(toks, i))>>)
    ELSE POk([factors |-> factors, ops |-> ops], i)

\* Parser::parse_term
parse_term(toks, i) ==
    LET factor == Call("parse_factor", toks, i, <<>>)
    IN  IF ~factor.ok THEN factor
        ELSE Call("parse_term_loop", toks, factor.idx, <<(<<factor.node>>), <<>>>>)

\* Parser::parse_factor, the argument loop of the FunctionCall arm (entered
\* after the opening parenthesis)
parse_args(toks, i, val) ==
    LET arg == Call("parse_statement", toks, i, <<>>)
    IN  IF ~arg.ok THEN arg
        ELSE IF current(toks, arg.idx) = <<>> THEN PFail(arg.idx, "ran_out")
        ELSE IF CurType(toks, arg.idx) = "Separator"
        THEN Call("parse_args", toks, arg.idx + 1, Append(val, arg.node))
        ELSE LET close == expect_consume(toks, arg.idx, "CloseGrouper")
             IN  IF ~close.ok THEN close
                 ELSE POk(Append(val, arg.node), close.idx)

\* Parser::parse_factor
parse_factor(toks, i) ==
    IF current(toks, i) = <<>> THEN PFail(i, "ran_out")
    ELSE LET t == CurType(toks, i)
             str == toks[i + 1].str
         IN  CASE t = "Integer" ->
                    LET num == ParseI32(str)
                    IN  IF num # <<>> THEN POk([kind |-> "IntFactor", val |-> num[1]], i + 1)
                        ELSE IF current(toks, i + 1) = <<>> THEN PFail(i + 1, "ran_out")
                        ELSE PFail(i + 1, "integer")
               [] t = "String" ->
                    \* remove start and end quotes
                    POk([kind |-> "StringFactor", val |-> SubSeq(str, 2, Len(str) - 1)], i + 1)
               [] t = "True" -> POk([kind |-> "BoolFactor", val |-> TRUE], i + 1)
               [] t = "False" -> POk([kind |-> "BoolFactor", val |-> FALSE], i + 1)
               [] t = "Ident" -> POk([kind |-> "IdentFactor", val |-> str], i + 1)
               [] t = "OpenGrouper" ->
                    LET inner == Call("parse_statement", toks, i + 1, <<>>)
                        close == expect_consume(toks, inner.idx, "CloseGrouper")
                    IN  IF ~inner.ok THEN inner
                        ELSE IF ~close.ok THEN close
                        ELSE POk([kind |-> "StmtFactor", val |-> inner.node], close.idx)
               [] t = "BlockStart" ->
                    LET block == Call("parse_block", toks, i, <<>>)
                    IN  IF ~block.ok THEN block
                        ELSE POk([kind |-> "StmtFactor", val |-> block.node], block.idx)
               [] t = "FunctionCall" ->
                    LET func == Call("parse_statement", toks, i + 1, <<>>)
                    IN  IF ~func.ok THEN func
                        ELSE IF current(toks, func.idx) = <<>> THEN PFail(func.idx, "ran_out")
                        ELSE IF CurType(toks, func.idx) # "ParameterList"
                        THEN POk([kind |-> "StmtFactor",
                                  val |-> [kind |-> "FunctionCall", func |-> func.node,
                                           args |-> <<>>]], func.idx)
                        ELSE LET open == expect_consume(toks, func.idx + 1, "OpenGrouper")
                                 args == Call("parse_args", toks, open.idx, <<>>)
                             IN  IF ~open.ok THEN open
                                 ELSE IF ~args.ok THEN args
                                 ELSE POk([kind |-> "StmtFactor",
                                           val |-> [kind |-> "FunctionCall",
                                                    func |-> func.node,
                                                    args |-> args.node]], args.idx)
               [] OTHER -> PFail(i, "factor")

\* a call of the parse function named fn
Call(fn, toks, i, acc) ==
    CASE fn = "parse_statement" -> parse_statement(toks, i)
      [] fn = "parse_block" -> parse_block(toks, i)
      [] fn = "parse_block_lines" -> parse_block_lines(toks, i, acc)
      [] fn = "parse_conditions" -> parse_conditions(toks, i, acc)
      [] fn = "parse_condition_tuple" -> parse_condition_tuple(toks, i)
      [] fn = "parse_expr" -> parse_expr(toks, i)
      [] fn = "parse_expr_loop" -> parse_expr_loop(toks, i, acc[1], acc[2])
      [] fn = "parse_term" -> parse_term(toks, i)
      [] fn = "parse_term_loop" -> parse_term_loop(toks, i, acc[1], acc[2])
      [] fn = "parse_factor" -> parse_factor(toks, i)
      [] fn = "parse_args" -> parse_args(toks, i, acc)

\* parse_program without its expect_consume(Type::EOF)
parse_program_no_eof(toks) ==
    Call("parse_statement", toks, 0, <<>>)

\* Parser::parse_program
parse_program(toks) ==
    LET body == Call("parse_statement", toks, 0, <<>>)
        eof == expect_consume(toks, body.idx, "EOF")
    IN  IF ~body.ok THEN body
        ELSE IF ~eof.ok THEN eof
        ELSE POk(body.node, eof.idx)

-----------------------------------------------------------------------------
(* Objects (src/src/object.rs; the Boolean variant as interpreter.rs and    *)
(* builtins.rs use it).  A String holds its characters.                     *)

Integer(n) == [type |-> "Integer", v |-> n]

String(chars) == [type |-> "String", v |-> chars]

Boolean(b) == [type |-> "Boolean", v |-> b]

RustFunction(f) == [type |-> "RustFunction", v |-> f]

Function(params, body) == [type |-> "Function", v |-> <<params, body>>]

Null == [type |-> "Null", v |-> 0]

-----------------------------------------------------------------------------
(* 32-bit signed arithmetic.  An overflowing +, - or * panics in a build    *)
(* with overflow checks and wraps in one without; / panics on a zero        *)
(* divisor and on I32Min / -1 in every build.  The operators below never     *)
(* leave the 32-bit range themselves.                                       *)

AddOverflows(a, b) ==
    \/ b > 0 /\ a > I32Max - b
    \/ b < 0 /\ a < I32Min - b

WrapAdd(a, b) ==
    IF ~AddOverflows(a, b) THEN a + b
    ELSE IF b > 0 THEN (a - I32Max - 1) + (b - I32Max - 1)
    ELSE (a + I32Max + 1) + (b + I32Max + 1)

SubOverflows(a, b) ==
    \/ b < 0 /\ a > I32Max + b
    \/ b > 0 /\ a < I32Min + b

WrapSub(a, b) ==
    IF ~SubOverflows(a, b) THEN a - b
    ELSE IF b = I32Min THEN a + I32Min
    ELSE WrapAdd(a, 0 - b)

MulOverflows(a, b) ==
    CASE a = 0 \/ b = 0 -> FALSE
      [] a > 0 /\ b > 0 -> a > I32Max \div b
      [] a > 0 /\ b < 0 -> b < (I32Min + a - 1) \div a
      [] a < 0 /\ b > 0 -> a < (I32Min + b - 1) \div b
      [] OTHER -> a = I32Min \/ b = I32Min \/ (0 - a) > I32Max \div (0 - b)

RECURSIVE WrapMul(_, _)
WrapMul(a, b) ==
    IF b = 0 THEN 0
    ELSE IF b = -1 THEN WrapSub(0, a)
    ELSE LET h == WrapMul(a, b \div 2)
             d == WrapAdd(h, h)
         IN  IF b % 2 = 0 THEN d ELSE WrapAdd(d, a)

\* floor(|a| / |b|) for b # 0, without leaving the 32-bit range
MagDiv(a, b) ==
    IF b = I32Min THEN (IF a = I32Min THEN 1 ELSE 0)
    ELSE LET mb == IF b < 0 THEN 0 - b ELSE b
         IN  IF a = I32Min
             THEN (I32Max \div mb) + (IF I32Max % mb = mb - 1 THEN 1 ELSE 0)
             ELSE (IF a < 0 THEN 0 - a ELSE a) \div mb

\* i32 division truncates toward zero (b # 0, and not I32Min / -1)
TruncDiv(a, b) ==
    IF (a < 0) = (b < 0) THEN MagDiv(a, b) ELSE 0 - MagDiv(a, b)

\* the outcome of an operator or a native: a value, or the panic that ends it
Val(v) == [ok |-> TRUE, val |-> v, err |-> "none"]

Panic(why) == [ok |-> FALSE, val |-> Null, err |-> why]

\* String::repeat
RECURSIVE Repeat(_, _)
Repeat(string, amt) == IF amt = 0 THEN <<>> ELSE string \o Repeat(string, amt - 1)

\* eval_termop without the check of the repeat count: a negative count repeats
\* zero times
eval_termop_unchecked(op, left, right, checks) ==
    IF op = "Mul" /\ left.type = "String" /\ right.type = "Integer"
    THEN Val(String(IF right.v < 0 THEN <<>> ELSE Repeat(left.v, right.v)))
    ELSE Panic("unsupported_operation")

\* Interpreter::eval_termop; checks is whether the build checks overflow
eval_termop(op, left, right, checks) ==
    IF left.type = "Integer" /\ right.type = "Integer"
    THEN IF op = "Div"
         THEN IF right.v = 0 THEN Panic("divide_by_zero")
              ELSE IF left.v = I32Min /\ right.v = -1 THEN Panic("overflow")
              ELSE Val(Integer(TruncDiv(left.v, right.v)))
         ELSE IF MulOverflows(left.v, right.v) /\ checks THEN Panic("overflow")
              ELSE Val(Integer(WrapMul(left.v, right.v)))
    ELSE IF op = "Mul" /\ left.type = "String" /\ right.type = "Integer"
    THEN IF right.v < 0 THEN Panic("repeat_negative")
         ELSE Val(String(Repeat(left.v, right.v)))
    ELSE Panic("unsupported_operation")

\* Interpreter::eval_exprop
eval_exprop(op, left, right, checks) ==
    IF left.type = "Integer" /\ right.type = "Integer"
    THEN IF op = "Add"
         THEN IF AddOverflows(left.v, right.v) /\ checks THEN Panic("overflow")
              ELSE Val(Integer(WrapAdd(left.v, right.v)))
         ELSE IF SubOverflows(left.v, right.v) /\ checks THEN Panic("overflow")
              ELSE Val(Integer(WrapSub(left.v, right.v)))
    ELSE IF op = "Add" /\ left.type = "String" /\ right.type = "String"
    THEN Val(String(left.v \o right.v))
    ELSE Panic("unsupported_operation")

-----------------------------------------------------------------------------
(* Natives (src/src/builtins.rs).                                           *)

\* to_bool with every Integer taken for true
to_bool_integer_true(arg) ==
    CASE arg.type = "Boolean" -> <<arg.v>>
      [] arg.type = "Integer" -> <<TRUE>>
      [] arg.type = "String" -> <<Len(arg.v) # 0>>
      [] OTHER -> <<>>

\* builtins::to_bool: <<b>>, or <<>> where it panics
to_bool(arg) ==
    CASE arg.type = "Boolean" -> <<arg.v>>
      [] arg.type = "Integer" -> <<arg.v # 0>>
      [] arg.type = "String" -> <<Len(arg.v) # 0>>
      [] OTHER -> <<>>

DigitChar(d) ==
    CASE d = 0 -> "0" [] d = 1 -> "1" [] d = 2 -> "2" [] d = 3 -> "3" [] d = 4 -> "4"
      [] d = 5 -> "5" [] d = 6 -> "6" [] d = 7 -> "7" [] d = 8 -> "8" [] d = 9 -> "9"

RECURSIVE Decimal(_)
Decimal(n) == IF n < 10 THEN <<DigitChar(n)>> ELSE Append(Decimal(n \div 10), DigitChar(n % 10))

\* what println!("{}", _) writes for the object s_print accepts
Display(obj) ==
    CASE obj.type = "String" -> obj.v
      [] obj.type = "Integer" ->
            IF obj.v >= 0 THEN Decimal(obj.v)
            ELSE IF obj.v = I32Min
            THEN <<"-", "2", "1", "4", "7", "4", "8", "3", "6", "4", "8">>
            ELSE <<"-">> \o Decimal(0 - obj.v)
      [] obj.type = "Boolean" -> IF obj.v THEN Kw("true") ELSE Kw("false")

\* s_print: the lines written before it returns or panics, and whether it panics
RECURSIVE PrintLines(_, _)
PrintLines(args, k) ==
    IF k > Len(args) \/ args[k].type \notin {"String", "Integer", "Boolean"} THEN <<>>
    ELSE <<Display(args[k])>> \o PrintLines(args, k + 1)

s_print(args) ==
    IF \E k \in 1..Len(args) : args[k].type \notin {"String", "Integer", "Boolean"}
    THEN Panic("invalid_argument")
    ELSE Val(Null)

s_to_bool(args) ==
    IF Len(args) # 1 THEN Panic("argument_count")
    ELSE IF to_bool(args[1]) = <<>> THEN Panic("cannot_convert")
    ELSE Val(Boolean(to_bool(args[1])[1]))

\* calling the fn pointer an Object::RustFunction holds
CallNative(f, args) == IF f = "s_print" THEN s_print(args) ELSE s_to_bool(args)

NativeOutput(f, args) == IF f = "s_print" THEN PrintLines(args, 1) ELSE <<>>

\* builtins::get_builtins
get_builtins ==
    << <<(<<"p", "r", "i", "n", "t">>), RustFunction("s_print")>>,
       <<(<<"t", "o", "_", "b", "o", "o", "l">>), RustFunction("s_to_bool")>> >>

-----------------------------------------------------------------------------
(* The scope chain (src/src/scope.rs).  Rust links each Scope to its        *)
(* parent; here the chain is the sequence of frames from the root (first)   *)
(* to the current scope (last).  A frame is a function from names to        *)
(* Objects.                                                                 *)

\* Scope::new_empty's memvars
EmptyFrame == [n \in {} |-> Null]

\* builtins::fill_with_builtins
RECURSIVE fill_with_builtins(_, _)
fill_with_builtins(map, k) ==
    IF k > Len(get_builtins) THEN map
    ELSE fill_with_builtins((get_builtins[k][1] :> get_builtins[k][2]) @@ map, k + 1)

\* Scope::new_root
new_root == <<fill_with_builtins(EmptyFrame, 1)>>

\* Scope::extend
extend(scope) == Append(scope, EmptyFrame)

\* retrieve that returns the parent's parent
retrieve_grandparent(scope) ==
    IF Len(scope) > 1 THEN <<SubSeq(scope, 1, Len(scope) - 2)>> ELSE <<>>

\* Scope::retrieve: <<parent>>, or <<>> where unwrap panics on the root
retrieve(scope) == IF Len(scope) > 1 THEN <<SubSeq(scope, 1, Len(scope) - 1)>> ELSE <<>>

\* Scope::set
set(scope, name, value) == [scope EXCEPT ![Len(scope)] = (name :> value) @@ @]

\* Scope::get: <<object>>, or <<>> (None)
RECURSIVE get(_, _)
get(scope, name) ==
    IF name \in DOMAIN scope[Len(scope)] THEN <<scope[Len(scope)][name]>>
    ELSE IF Len(scope) > 1 THEN get(SubSeq(scope, 1, Len(scope) - 1), name)
    ELSE <<>>

\* Scope::reassign: walk outward from the current frame and overwrite name in
\* the first frame that defines it; <<scope>>, or <<>> (false) when none does
RECURSIVE reassign(_, _, _)
reassign(scope, name, value) ==
    IF name \in DOMAIN scope[Len(scope)]
    THEN <<[scope EXCEPT ![Len(scope)] = (name :> value) @@ @]>>
    ELSE IF Len(scope) > 1
    THEN LET outer == reassign(SubSeq(scope, 1, Len(scope) - 1), name, value)
         IN  IF outer = <<>> THEN <<>> ELSE <<Append(outer[1], scope[Len(scope)])>>
    ELSE <<>>

-----------------------------------------------------------------------------
(* tokenize / work (src/src/token.rs): one action per iteration of the      *)
(* while loop.                                                              *)

\* one iteration in which a rule matches: emit the token, advance the cursor
LexStep ==
    /\ phase = "lex"
    /\ str_index < Len(characters)
    /\ FirstRule(characters, str_index) # 0
    /\ LET rule == expressions[FirstRule(characters, str_index)]
           re_match_end == ReMatchEnd(Captures(rule, characters, str_index))
           str == SubSeq(characters, str_index + 1, str_index + re_match_end)
       IN  /\ token_list' = Emit(token_list, rule.type, str)
           /\ str_index' = str_index + re_match_end
    /\ UNCHANGED <<phase, characters, parsevars, evalvars>>

\* one iteration in which no rule matches: tokenize_error exits the process
LexError ==
    /\ phase = "lex"
    /\ str_index < Len(characters)
    /\ FirstRule(characters, str_index) = 0
    /\ phase' = "lex_error"
    /\ UNCHANGED <<lexvars, parsevars, evalvars>>

\* the loop ends: push the EOF token and return; main hands the list to Parser::new
LexEnd ==
    /\ phase = "lex"
    /\ ~(str_index < Len(characters))
    /\ token_list' = Append(token_list, EOFToken)
    /\ phase' = "parse"
    /\ index' = 0
    /\ UNCHANGED <<characters, str_index, program, parse_err, evalvars>>

-----------------------------------------------------------------------------
(* Parser::parse (src/src/parser.rs).                                       *)

Parse ==
    /\ phase = "parse"
    /\ LET p == parse_program(token_list)
       IN  /\ index' = p.idx
           /\ program' = p.node
           /\ parse_err' = p.err
           /\ phase' = IF p.ok THEN "parsed" ELSE "parse_error"
    /\ UNCHANGED <<lexvars, evalvars>>

-----------------------------------------------------------------------------
(* The evaluator (src/src/interpreter.rs).  The Rust code is recursive;     *)
(* here ctl is what the innermost call is doing and kont holds one record   *)
(* per suspended call, innermost last.  A call made in tail position (its   *)
(* result is returned unchanged and nothing runs after it) leaves no record.*)

Idle == [mode |-> "idle"]

NoBlock == [entry |-> 0, exit |-> 0, via |-> "none"]

Push(frame) == Append(kont, frame)

Top == kont[Len(kont)]

Pop == SubSeq(kont, 1, Len(kont) - 1)

Returned(k) == ctl.mode = "value" /\ kont # <<>> /\ Top.k = k

\* a panic: the evaluation is over
Abort(why) ==
    /\ phase' = "abort"
    /\ error' = why
    /\ UNCHANGED <<current_scope, ctl, kont, result, output, last_block>>

\* the evaluation goes on with control c, stack k and scope sc
Go(c, k, sc) ==
    /\ ctl' = c
    /\ kont' = k
    /\ current_scope' = sc
    /\ UNCHANGED <<phase, error, result, output, last_block>>

\* main: Interpreter::new() and eval_program
EvalProgram ==
    /\ phase = "parsed"
    /\ phase' = "eval"
    /\ current_scope' = new_root
    /\ ctl' = [mode |-> "stmt", node |-> program]
    /\ kont' = <<>>
    /\ UNCHANGED <<lexvars, parsevars, result, error, output, last_block>>

\* eval_program returns
EvalDone ==
    /\ phase = "eval"
    /\ ctl.mode = "value"
    /\ kont = <<>>
    /\ phase' = "done"
    /\ result' = ctl.val
    /\ UNCHANGED <<lexvars, parsevars, current_scope, ctl, kont, error, output, last_block>>

\* eval_statement, every arm but BlockStatement
EvalStatement ==
    /\ phase = "eval"
    /\ ctl.mode = "stmt"
    /\ ctl.node.kind # "BlockStatement"
    /\ LET statement == ctl.node
       IN  CASE statement.kind = "Assign" ->
                    Go([mode |-> "expr", node |-> statement.expr],
                       Push([k |-> "assign", ident |-> statement.ident,
                             change |-> statement.change]),
                       current_scope)
             [] statement.kind = "Expr" ->
                    Go([mode |-> "expr", node |-> statement.expr], kont, current_scope)
             [] statement.kind = "Return" ->
                    Go([mode |-> "stmt", node |-> statement.statement], kont, current_scope)
             [] statement.kind = "FunctionDec" ->
                    Go([mode |-> "value", val |-> Function(statement.params, statement.body)],
                       kont, current_scope)
             [] statement.kind = "FunctionCall" ->
                    Go([mode |-> "stmt", node |-> statement.func],
                       Push([k |-> "call_func", args |-> statement.args]),
                       current_scope)
             [] statement.kind = "If" ->
                    Go([mode |-> "if", conditions |-> statement.conditions, i |-> 1],
                       kont, current_scope)
    /\ UNCHANGED <<lexvars, parsevars>>

\* eval_statement's BlockStatement arm calls eval_block_vec, which starts with
\* extend_scope; depth is the scope depth at the call
BlockEnter ==
    /\ phase = "eval"
    /\ ctl.mode = "stmt"
    /\ ctl.node.kind = "BlockStatement"
    /\ Go([mode |-> "block", statements |-> ctl.node.statements, i |-> 1,
           depth |-> Len(current_scope)],
          kont, extend(current_scope))
    /\ UNCHANGED <<lexvars, parsevars>>

\* eval_block_vec, the for loop at a Return statement: return eval_statement(ret_stmt)
BlockReturnStmt ==
    /\ phase = "eval"
    /\ ctl.mode = "block"
    /\ ctl.i <= Len(ctl.statements)
    /\ ctl.statements[ctl.i].kind = "Return"
    /\ Go([mode |-> "stmt", node |-> ctl.statements[ctl.i].statement],
          Push([k |-> "block_return", depth |-> ctl.depth]),
          current_scope)
    /\ UNCHANGED <<lexvars, parsevars>>

\* eval_block_vec, the for loop at any other statement
BlockOtherStmt ==
    /\ phase = "eval"
    /\ ctl.mode = "block"
    /\ ctl.i <= Len(ctl.statements)
    /\ ctl.statements[ctl.i].kind # "Return"
    /\ Go([mode |-> "stmt", node |-> ctl.statements[ctl.i]],
          Push([k |-> "block_stmt", statements |-> ctl.statements, i |-> ctl.i,
                depth |-> ctl.depth]),
          current_scope)
    /\ UNCHANGED <<lexvars, parsevars>>

\* eval_block_vec: the statement's value is dropped and the loop goes on
BlockStmtDone ==
    /\ phase = "eval"
    /\ Returned("block_stmt")
    /\ Go([mode |-> "block", statements |-> Top.statements, i |-> Top.i + 1,
           depth |-> Top.depth],
          Pop, current_scope)
    /\ UNCHANGED <<lexvars, parsevars>>

\* BlockReturnExit with retrieve_scope called on the return path as well
BlockReturnExitPopping ==
    /\ phase = "eval"
    /\ Returned("block_return")
    /\ ctl' = ctl
    /\ kont' = Pop
    /\ current_scope' = retrieve(current_scope)[1]
    /\ last_block' = [entry |-> Top.depth, exit |-> Len(current_scope) - 1, via |-> "return"]
    /\ UNCHANGED <<lexvars, parsevars, phase, result, error, output>>

\* eval_block_vec returns what the Return statement's inner statement yielded
BlockReturnExit ==
    /\ phase = "eval"
    /\ Returned("block_return")
    /\ ctl' = ctl
    /\ kont' = Pop
    /\ last_block' = [entry |-> Top.depth, exit |-> Len(current_scope), via |-> "return"]
    /\ UNCHANGED <<lexvars, parsevars, phase, current_scope, result, error, output>>

\* eval_block_vec after the loop: retrieve_scope, then Object::Null
BlockFallOff ==
    /\ phase = "eval"
    /\ ctl.mode = "block"
    /\ ctl.i > Len(ctl.statements)
    /\ IF retrieve(current_scope) = <<>>
       THEN Abort("unwrap_none")
       ELSE /\ ctl' = [mode |-> "value", val |-> Null]
            /\ current_scope' = retrieve(current_scope)[1]
            /\ last_block' = [entry |-> ctl.depth, exit |-> Len(current_scope) - 1,
                              via |-> "end"]
            /\ UNCHANGED <<phase, kont, result, error, output>>
    /\ UNCHANGED <<lexvars, parsevars>>

\* assign with the change flag ignored: every assignment is a set
assign_ignoring_change(scope, ident, val, change) == <<set(scope, ident, val)>>

\* the Assign arm once the expression has a value: set, or reassign and the
\* panic when reassign returns false; <<scope>> or <<>>
assign(scope, ident, val, change) ==
    IF change THEN reassign(scope, ident, val) ELSE <<set(scope, ident, val)>>

AssignDone ==
    /\ phase = "eval"
    /\ Returned("assign")
    /\ LET scope == assign(current_scope, Top.ident, ctl.val, Top.change)
       IN  IF scope = <<>> THEN Abort("reassign_undefined")
           ELSE Go([mode |-> "value", val |-> Null], Pop, scope[1])
    /\ UNCHANGED <<lexvars, parsevars>>

\* the FunctionCall arm once the callee has a value
CallFuncDone ==
    /\ phase = "eval"
    /\ Returned("call_func")
    /\ IF ctl.val.type = "RustFunction"
       THEN Go([mode |-> "args", func |-> ctl.val.v, args |-> Top.args, vals |-> <<>>],
               Pop, current_scope)
       ELSE Abort("cannot_call")
    /\ UNCHANGED <<lexvars, parsevars>>

\* ArgNext with the arguments taken from the last to the first
ArgNextReversed ==
    /\ phase = "eval"
    /\ ctl.mode = "args"
    /\ Len(ctl.vals) < Len(ctl.args)
    /\ Go([mode |-> "stmt", node |-> ctl.args[Len(ctl.args) - Len(ctl.vals)]],
          Push([k |-> "call_arg", func |-> ctl.func, args |-> ctl.args, vals |-> ctl.vals]),
          current_scope)
    /\ UNCHANGED <<lexvars, parsevars>>

\* args.iter().map(..): evaluate the next argument
ArgNext ==
    /\ phase = "eval"
    /\ ctl.mode = "args"
    /\ Len(ctl.vals) < Len(ctl.args)
    /\ Go([mode |-> "stmt", node |-> ctl.args[Len(ctl.vals) + 1]],
          Push([k |-> "call_arg", func |-> ctl.func, args |-> ctl.args, vals |-> ctl.vals]),
          current_scope)
    /\ UNCHANGED <<lexvars, parsevars>>

ArgDone ==
    /\ phase = "eval"
    /\ Returned("call_arg")
    /\ Go([mode |-> "args", func |-> Top.func, args |-> Top.args,
           vals |-> Append(Top.vals, ctl.val)],
          Pop, current_scope)
    /\ UNCHANGED <<lexvars, parsevars>>

\* func(obj_args): the native runs
CallNativeStep ==
    /\ phase = "eval"
    /\ ctl.mode = "args"
    /\ Len(ctl.vals) = Len(ctl.args)
    /\ LET r == CallNative(ctl.func, ctl.vals)
       IN  /\ output' = output \o NativeOutput(ctl.func, ctl.vals)
           /\ IF r.ok
              THEN /\ ctl' = [mode |-> "value", val |-> r.val]
                   /\ UNCHANGED <<phase, error>>
              ELSE /\ phase' = "abort"
                   /\ error' = r.err
                   /\ ctl' = ctl
    /\ UNCHANGED <<lexvars, parsevars, current_scope, kont, result, last_block>>

\* the If arm, the for loop over the conditions
IfNext ==
    /\ phase = "eval"
    /\ ctl.mode = "if"
    /\ IF ctl.i > Len(ctl.conditions)
       THEN Go([mode |-> "value", val |-> Null], kont, current_scope)
       ELSE LET condition == ctl.conditions[ctl.i]
            IN  IF condition.cond # <<>>
                THEN Go([mode |-> "stmt", node |-> condition.cond[1]],
                        Push([k |-> "if_cond", conditions |-> ctl.conditions, i |-> ctl.i]),
                        current_scope)
                ELSE Go([mode |-> "stmt", node |-> condition.consequent],
                        kont, current_scope)
    /\ UNCHANGED <<lexvars, parsevars>>

\* the If arm once a condition has a value: to_bool, then the consequent or
\* the next condition
IfCondDone ==
    /\ phase = "eval"
    /\ Returned("if_cond")
    /\ LET b == to_bool(ctl.val)
       IN  IF b = <<>> THEN Abort("cannot_convert")
           ELSE IF b[1]
           THEN Go([mode |-> "stmt", node |-> Top.conditions[Top.i].consequent],
                   Pop, current_scope)
           ELSE Go([mode |-> "if", conditions |-> Top.conditions, i |-> Top.i + 1],
                   Pop, current_scope)
    /\ UNCHANGED <<lexvars, parsevars>>

\* eval_expr and eval_term, the while loop: evaluate the next operand, or
\* return the total
Fold(k, mode, node, operands, cur, total) ==
    IF cur < Len(operands)
    THEN Go([mode |-> mode, node |-> operands[cur + 1]],
            Append(Pop, [k |-> k, chain |-> node, cur |-> cur, total |-> <<total>>]),
            current_scope)
    ELSE Go([mode |-> "value", val |-> total], Pop, current_scope)

\* eval_expr: no terms is Null; otherwise evaluate the first term
EvalExpr ==
    /\ phase = "eval"
    /\ ctl.mode = "expr"
    /\ IF Len(ctl.node.terms) = 0
       THEN Go([mode |-> "value", val |-> Null], kont, current_scope)
       ELSE Go([mode |-> "term", node |-> ctl.node.terms[1]],
               Push([k |-> "expr_term", chain |-> ctl.node, cur |-> 0, total |-> <<>>]),
               current_scope)
    /\ UNCHANGED <<lexvars, parsevars>>

\* expr_total with the operands of eval_exprop exchanged
expr_total_swapped(op, total, right, checks) == eval_exprop(op, right, total, checks)

\* eval_expr, the loop body: total = eval_exprop(ops[current_term - 1], total, right)
expr_total(op, total, right, checks) == eval_exprop(op, total, right, checks)

\* eval_expr: a term has a value: the first is the total, a later one is
\* folded into it
ExprTermDone ==
    /\ phase = "eval"
    /\ Returned("expr_term")
    /\ \E checks \in BOOLEAN :
        LET expr == Top.chain
            r == IF Top.cur = 0 THEN Val(ctl.val)
                 ELSE expr_total(expr.ops[Top.cur], Top.total[1], ctl.val, checks)
        IN  IF r.ok THEN Fold("expr_term", "term", expr, expr.terms, Top.cur + 1, r.val)
            ELSE Abort(r.err)
    /\ UNCHANGED <<lexvars, parsevars>>

\* eval_term: no factors is Null; otherwise evaluate the first factor
EvalTerm ==
    /\ phase = "eval"
    /\ ctl.mode = "term"
    /\ IF Len(ctl.node.factors) = 0
       THEN Go([mode |-> "value", val |-> Null], kont, current_scope)
       ELSE Go([mode |-> "factor", node |-> ctl.node.factors[1]],
               Push([k |-> "term_factor", chain |-> ctl.node, cur |-> 0, total |-> <<>>]),
               current_scope)
    /\ UNCHANGED <<lexvars, parsevars>>

\* eval_term, the loop body: total = eval_termop(ops[current_factor - 1], total, right)
term_total(op, total, right, checks) == eval_termop(op, total, right, checks)

\* eval_term: a factor has a value
TermFactorDone ==
    /\ phase = "eval"
    /\ Returned("term_factor")
    /\ \E checks \in BOOLEAN :
        LET term == Top.chain
            r == IF Top.cur = 0 THEN Val(ctl.val)
                 ELSE term_total(term.ops[Top.cur], Top.total[1], ctl.val, checks)
        IN  IF r.ok THEN Fold("term_factor", "factor", term, term.factors, Top.cur + 1, r.val)
            ELSE Abort(r.err)
    /\ UNCHANGED <<lexvars, parsevars>>

\* eval_factor
EvalFactor ==
    /\ phase = "eval"
    /\ ctl.mode = "factor"
    /\ LET factor == ctl.node
       IN  CASE factor.kind = "IdentFactor" ->
                    IF get(current_scope, factor.val) = <<>>
                    THEN Abort("identifier_not_found")
                    ELSE Go([mode |-> "value", val |-> get(current_scope, factor.val)[1]],
                            kont, current_scope)
             [] factor.kind = "StringFactor" ->
                    Go([mode |-> "value", val |-> String(factor.val)], kont, current_scope)
             [] factor.kind = "BoolFactor" ->
                    Go([mode |-> "value", val |-> Boolean(factor.val)], kont, current_scope)
             [] factor.kind = "IntFactor" ->
                    Go([mode |-> "value", val |-> Integer(factor.val)], kont, current_scope)
             [] factor.kind = "StmtFactor" ->
                    Go([mode |-> "stmt", node |-> factor.val], kont, current_scope)
    /\ UNCHANGED <<lexvars, parsevars>>

-----------------------------------------------------------------------------
(* The program texts main() is run on.                                      *)

\* { return 1; }
SrcReturn ==
    <<"{", " ", "r", "e", "t", "u", "r", "n", " ", "1", ";", " ", "}">>

\* return 1 + 1
SrcTopReturn ==
    <<"r", "e", "t", "u", "r", "n", " ", "1", " ", "+", " ", "1">>

\* { set x to 1; { set x to 2; }; return x; }
SrcScoping ==
    <<"{", " ", "s", "e", "t", " ", "x", " ", "t", "o", " ", "1", ";", " ", "{", " ", "s", "e",
      "t", " ", "x", " ", "t", "o", " ", "2", ";", " ", "}", ";", " ", "r", "e", "t", "u", "r",
      "n", " ", "x", ";", " ", "}">>

\* { set x to 1; { set x to 2; return 0; }; return x; }
SrcScopingReturn ==
    <<"{", " ", "s", "e", "t", " ", "x", " ", "t", "o", " ", "1", ";", " ", "{", " ", "s", "e",
      "t", " ", "x", " ", "t", "o", " ", "2", ";", " ", "r", "e", "t", "u", "r", "n", " ", "0",
      ";", " ", "}", ";", " ", "r", "e", "t", "u", "r", "n", " ", "x", ";", " ", "}">>

\* { set x to 0; if x then return 1; else if (to_bool(1)) then return 2; else return 3; }
SrcIfChain ==
    <<"{", " ", "s", "e", "t", " ", "x", " ", "t", "o", " ", "0", ";", " ", "i", "f", " ", "x",
      " ", "t", "h", "e", "n", " ", "r", "e", "t", "u", "r", "n", " ", "1", ";", " ", "e", "l",
      "s", "e", " ", "i", "f", " ", "(", "t", "o", "_", "b", "o", "o", "l", "(", "1", ")", ")",
      " ", "t", "h", "e", "n", " ", "r", "e", "t", "u", "r", "n", " ", "2", ";", " ", "e", "l",
      "s", "e", " ", "r", "e", "t", "u", "r", "n", " ", "3", ";", " ", "}">>

\* { set x to 0; if x then return 1 else if (call to_bool with (1)) then return 2 else return 3; }
SrcIfChainCall ==
    <<"{", " ", "s", "e", "t", " ", "x", " ", "t", "o", " ", "0", ";", " ", "i", "f", " ", "x",
      " ", "t", "h", "e", "n", " ", "r", "e", "t", "u", "r", "n", " ", "1", " ", "e", "l", "s",
      "e", " ", "i", "f", " ", "(", "c", "a", "l", "l", " ", "t", "o", "_", "b", "o", "o", "l",
      " ", "w", "i", "t", "h", " ", "(", "1", ")", ")", " ", "t", "h", "e", "n", " ", "r", "e",
      "t", "u", "r", "n", " ", "2", " ", "e", "l", "s", "e", " ", "r", "e", "t", "u", "r", "n",
      " ", "3", ";", " ", "}">>

\* { set x to 0; return if x then 1 else if (call to_bool with (1)) then 2 else 3; }
SrcReturnIf ==
    <<"{", " ", "s", "e", "t", " ", "x", " ", "t", "o", " ", "0", ";", " ", "r", "e", "t", "u",
      "r", "n", " ", "i", "f", " ", "x", " ", "t", "h", "e", "n", " ", "1", " ", "e", "l", "s",
      "e", " ", "i", "f", " ", "(", "c", "a", "l", "l", " ", "t", "o", "_", "b", "o", "o", "l",
      " ", "w", "i", "t", "h", " ", "(", "1", ")", ")", " ", "t", "h", "e", "n", " ", "2", " ",
      "e", "l", "s", "e", " ", "3", ";", " ", "}">>

\* { change y to 5; }
SrcChangeUndefined ==
    <<"{", " ", "c", "h", "a", "n", "g", "e", " ", "y", " ", "t", "o", " ", "5", ";", " ", "}">>

\* { set y to 1; { set z to 2; change y to 5; }; return y; }
SrcChangeOuter ==
    <<"{", " ", "s", "e", "t", " ", "y", " ", "t", "o", " ", "1", ";", " ", "{", " ", "s", "e",
      "t", " ", "z", " ", "t", "o", " ", "2", ";", " ", "c", "h", "a", "n", "g", "e", " ", "y",
      " ", "t", "o", " ", "5", ";", " ", "}", ";", " ", "r", "e", "t", "u", "r", "n", " ", "y",
      ";", " ", "}">>

\* { set y to 1; { set y to 2; { change y to 3; }; return y; }; }
SrcChangeShadow ==
    <<"{", " ", "s", "e", "t", " ", "y", " ", "t", "o", " ", "1", ";", " ", "{", " ", "s", "e",
      "t", " ", "y", " ", "t", "o", " ", "2", ";", " ", "{", " ", "c", "h", "a", "n", "g", "e",
      " ", "y", " ", "t", "o", " ", "3", ";", " ", "}", ";", " ", "r", "e", "t", "u", "r", "n",
      " ", "y", ";", " ", "}", ";", " ", "}">>

\* { set y to 1; change y to y + 1; return y; }
SrcChangeCurrent ==
    <<"{", " ", "s", "e", "t", " ", "y", " ", "t", "o", " ", "1", ";", " ", "c", "h", "a", "n",
      "g", "e", " ", "y", " ", "t", "o", " ", "y", " ", "+", " ", "1", ";", " ", "r", "e", "t",
      "u", "r", "n", " ", "y", ";", " ", "}">>

\* { { set y to 1; }; change y to 2; }
SrcChangeInner ==
    <<"{", " ", "{", " ", "s", "e", "t", " ", "y", " ", "t", "o", " ", "1", ";", " ", "}", ";",
      " ", "c", "h", "a", "n", "g", "e", " ", "y", " ", "t", "o", " ", "2", ";", " ", "}">>

\* { return "ab" * 3; }
SrcRepeat ==
    <<"{", " ", "r", "e", "t", "u", "r", "n", " ", "\"", "a", "b", "\"", " ", "*", " ", "3",
      ";", " ", "}">>

\* { return "x" * -1; }
SrcRepeatMinus ==
    <<"{", " ", "r", "e", "t", "u", "r", "n", " ", "\"", "x", "\"", " ", "*", " ", "-", "1",
      ";", " ", "}">>

\* { call print with ("a", 1 + 1, true); call print with (false, {}); }
SrcPrint ==
    <<"{", " ", "c", "a", "l", "l", " ", "p", "r", "i", "n", "t", " ", "w", "i", "t", "h", " ",
      "(", "\"", "a", "\"", ",", " ", "1", " ", "+", " ", "1", ",", " ", "t", "r", "u", "e",
      ")", ";", " ", "c", "a", "l", "l", " ", "p", "r", "i", "n", "t", " ", "w", "i", "t", "h",
      " ", "(", "f", "a", "l", "s", "e", ",", " ", "{", "}", ")", ";", " ", "}">>

\* { return 1 ? 2; }
SrcLexError ==
    <<"{", " ", "r", "e", "t", "u", "r", "n", " ", "1", " ", "?", " ", "2", ";", " ", "}">>

\* { return 7 / 2 + 1 / 0; }
SrcDivide ==
    <<"{", " ", "r", "e", "t", "u", "r", "n", " ", "7", " ", "/", " ", "2", " ", "+", " ", "1",
      " ", "/", " ", "0", ";", " ", "}">>

\* { return 2147483647 + 1; }
SrcOverflow ==
    <<"{", " ", "r", "e", "t", "u", "r", "n", " ", "2", "1", "4", "7", "4", "8", "3", "6", "4",
      "7", " ", "+", " ", "1", ";", " ", "}">>

\* { return call 1 with (2); }
SrcCallInteger ==
    <<"{", " ", "r", "e", "t", "u", "r", "n", " ", "c", "a", "l", "l", " ", "1", " ", "w", "i",
      "t", "h", " ", "(", "2", ")", ";", " ", "}">>

\* { return call to_bool; }
SrcCallNoArgs ==
    <<"{", " ", "r", "e", "t", "u", "r", "n", " ", "c", "a", "l", "l", " ", "t", "o", "_", "b",
      "o", "o", "l", ";", " ", "}">>

\* { return if false then 1; }
SrcIfNull ==
    <<"{", " ", "r", "e", "t", "u", "r", "n", " ", "i", "f", " ", "f", "a", "l", "s", "e", " ",
      "t", "h", "e", "n", " ", "1", ";", " ", "}">>

\* { if {} then 1; }
SrcIfBadCond ==
    <<"{", " ", "i", "f", " ", "{", "}", " ", "t", "h", "e", "n", " ", "1", ";", " ", "}">>

\* { return z; }
SrcUnknownIdent ==
    <<"{", " ", "r", "e", "t", "u", "r", "n", " ", "z", ";", " ", "}">>

\* -- strings\n{ return "a" + 'b'; }
SrcConcat ==
    <<"-", "-", " ", "s", "t", "r", "i", "n", "g", "s", "\n", "{", " ", "r", "e", "t", "u",
      "r", "n", " ", "\"", "a", "\"", " ", "+", " ", "'", "b", "'", ";", " ", "}">>

\* { call print with (1); return 2; call print with (3); }
SrcBlockOrder ==
    <<"{", " ", "c", "a", "l", "l", " ", "p", "r", "i", "n", "t", " ", "w", "i", "t", "h", " ",
      "(", "1", ")", ";", " ", "r", "e", "t", "u", "r", "n", " ", "2", ";", " ", "c", "a", "l",
      "l", " ", "p", "r", "i", "n", "t", " ", "w", "i", "t", "h", " ", "(", "3", ")", ";", " ",
      "}">>

\* { call print with (1); call print with (2); }
SrcBlockEnd ==
    <<"{", " ", "c", "a", "l", "l", " ", "p", "r", "i", "n", "t", " ", "w", "i", "t", "h", " ",
      "(", "1", ")", ";", " ", "c", "a", "l", "l", " ", "p", "r", "i", "n", "t", " ", "w", "i",
      "t", "h", " ", "(", "2", ")", ";", " ", "}">>

\* { return if { call print with (1); return 0; } then call print with (2) else if { call print with (3); return "a"; } then 5 else if { call print with (4); return 1; } then 6 else 7; }
SrcIfOrder ==
    <<"{", " ", "r", "e", "t", "u", "r", "n", " ", "i", "f", " ", "{", " ", "c", "a", "l", "l",
      " ", "p", "r", "i", "n", "t", " ", "w", "i", "t", "h", " ", "(", "1", ")", ";", " ", "r",
      "e", "t", "u", "r", "n", " ", "0", ";", " ", "}", " ", "t", "h", "e", "n", " ", "c", "a",
      "l", "l", " ", "p", "r", "i", "n", "t", " ", "w", "i", "t", "h", " ", "(", "2", ")", " ",
      "e", "l", "s", "e", " ", "i", "f", " ", "{", " ", "c", "a", "l", "l", " ", "p", "r", "i",
      "n", "t", " ", "w", "i", "t", "h", " ", "(", "3", ")", ";", " ", "r", "e", "t", "u", "r",
      "n", " ", "\"", "a", "\"", ";", " ", "}", " ", "t", "h", "e", "n", " ", "5", " ", "e", "l",
      "s", "e", " ", "i", "f", " ", "{", " ", "c", "a", "l", "l", " ", "p", "r", "i", "n", "t",
      " ", "w", "i", "t", "h", " ", "(", "4", ")", ";", " ", "r", "e", "t", "u", "r", "n", " ",
      "1", ";", " ", "}", " ", "t", "h", "e", "n", " ", "6", " ", "e", "l", "s", "e", " ", "7",
      ";", " ", "}">>

\* call print with ({ call print with (1); return 2; }, { call print with (3); return 4; })
SrcCallOrder ==
    <<"c", "a", "l", "l", " ", "p", "r", "i", "n", "t", " ", "w", "i", "t", "h", " ", "(", "{",
      " ", "c", "a", "l", "l", " ", "p", "r", "i", "n", "t", " ", "w", "i", "t", "h", " ", "(",
      "1", ")", ";", " ", "r", "e", "t", "u", "r", "n", " ", "2", ";", " ", "}", ",", " ", "{",
      " ", "c", "a", "l", "l", " ", "p", "r", "i", "n", "t", " ", "w", "i", "t", "h", " ", "(",
      "3", ")", ";", " ", "r", "e", "t", "u", "r", "n", " ", "4", ";", " ", "}", ")">>

\* call { call print with (1); return 5; } with (call print with (2))
SrcCallBlockCallee ==
    <<"c", "a", "l", "l", " ", "{", " ", "c", "a", "l", "l", " ", "p", "r", "i", "n", "t", " ",
      "w", "i", "t", "h", " ", "(", "1", ")", ";", " ", "r", "e", "t", "u", "r", "n", " ", "5",
      ";", " ", "}", " ", "w", "i", "t", "h", " ", "(", "c", "a", "l", "l", " ", "p", "r", "i",
      "n", "t", " ", "w", "i", "t", "h", " ", "(", "2", ")", ")">>

\* set print to 1
SrcSetNative ==
    <<"s", "e", "t", " ", "p", "r", "i", "n", "t", " ", "t", "o", " ", "1">>

\* { change to_bool to 0; return to_bool; }
SrcChangeNative ==
    <<"{", " ", "c", "h", "a", "n", "g", "e", " ", "t", "o", "_", "b", "o", "o", "l", " ", "t",
      "o", " ", "0", ";", " ", "r", "e", "t", "u", "r", "n", " ", "t", "o", "_", "b", "o", "o",
      "l", ";", " ", "}">>

\* { set print to 1; return print; }
SrcShadowNative ==
    <<"{", " ", "s", "e", "t", " ", "p", "r", "i", "n", "t", " ", "t", "o", " ", "1", ";", " ",
      "r", "e", "t", "u", "r", "n", " ", "p", "r", "i", "n", "t", ";", " ", "}">>

\* { return a - b - c; }
SrcSubChain(a, b, c) ==
    <<"{", " ", "r", "e", "t", "u", "r", "n", " ">> \o a \o <<" ", "-", " ">> \o b \o
      <<" ", "-", " ">> \o c \o <<";", " ", "}">>

\* { set x to a + b * c; return x; }
SrcPrecedence(a, b, c) ==
    <<"{", " ", "s", "e", "t", " ", "x", " ", "t", "o", " ">> \o a \o <<" ", "+", " ">> \o b \o
      <<" ", "*", " ">> \o c \o
      <<";", " ", "r", "e", "t", "u", "r", "n", " ", "x", ";", " ", "}">>

\* { return "ab" * (a - b); }
SrcRepeatBy(a, b) ==

      <<"{", " ", "r", "e", "t", "u", "r", "n", " ", "\"", "a", "b", "\"", " ", "*", " ", "(">> \o
      a \o <<" ", "-", " ">> \o b \o <<")", ";", " ", "}">>

\* the integer literals the families of programs are written with
Literals == {<<"2">>, <<"3">>, <<"4">>, <<"1", "0">>}

Programs ==
    {SrcReturn, SrcTopReturn, SrcScoping, SrcScopingReturn, SrcIfChain, SrcIfChainCall,
      SrcReturnIf, SrcChangeUndefined, SrcChangeOuter, SrcChangeShadow, SrcChangeCurrent,
      SrcChangeInner, SrcRepeat, SrcRepeatMinus, SrcPrint, SrcLexError, SrcDivide, SrcOverflow,
      SrcCallInteger, SrcCallNoArgs, SrcIfNull, SrcIfBadCond, SrcUnknownIdent, SrcConcat,
      SrcBlockOrder, SrcBlockEnd, SrcIfOrder, SrcCallOrder, SrcCallBlockCallee, SrcSetNative,
      SrcChangeNative, SrcShadowNative}
    \cup {SrcSubChain(a, b, c) : a \in Literals, b \in Literals, c \in Literals}
    \cup {SrcPrecedence(a, b, c) : a \in Literals, b \in Literals, c \in Literals}
    \cup {SrcRepeatBy(a, b) : a \in Literals, b \in Literals}

-----------------------------------------------------------------------------
(* The whole program: main() on one of the program texts.                   *)

\* the state that tokenize starts from, on text s
Start(s) ==
    /\ phase = "lex"
    /\ characters = s
    /\ str_index = 0
    /\ token_list = <<>>
    /\ index = 0
    /\ program = NoNode
    /\ parse_err = "none"
    /\ current_scope = <<>>
    /\ ctl = Idle
    /\ kont = <<>>
    /\ result = Null
    /\ error = "none"
    /\ output = <<>>
    /\ last_block = NoBlock

Init == \E s \in Programs : Start(s)

NextLex ==
    \/ LexStep
    \/ LexError
    \/ LexEnd

NextEval ==
    \/ EvalProgram
    \/ EvalDone
    \/ EvalStatement
    \/ BlockEnter
    \/ BlockReturnStmt
    \/ BlockOtherStmt
    \/ BlockStmtDone
    \/ BlockReturnExit
    \/ BlockFallOff
    \/ AssignDone
    \/ CallFuncDone
    \/ ArgNext
    \/ ArgDone
    \/ CallNativeStep
    \/ IfNext
    \/ IfCondDone
    \/ EvalExpr
    \/ ExprTermDone
    \/ EvalTerm
    \/ TermFactorDone
    \/ EvalFactor

Next ==
    \/ NextLex
    \/ Parse
    \/ NextEval

Spec == Init /\ [][Next]_vars

-----------------------------------------------------------------------------
(* The lexer alone, on every text of at most MaxLexLen characters over a    *)
(* small alphabet: letters that spell the keywords `to` and `if`, a digit,  *)
(* the dash, white space, a quote and the terminator.                       *)

MaxLexLen == 4

LexAlphabet == {"t", "o", "i", "f", "1", "-", " ", "\n", "\"", ";"}

LexSources == UNION {[1..n -> LexAlphabet] : n \in 0..MaxLexLen}

InitLex == \E s \in LexSources : Start(s)

SpecLex == InitLex /\ [][NextLex]_vars

-----------------------------------------------------------------------------
(* The parser alone, on every token vector tokenize can return that has at  *)
(* most MaxTokens tokens of a few kinds before its EOF token.               *)

MaxTokens == 4

TokenAlphabet ==
    {Token("BlockStart", <<"{">>), Token("BlockEnd", <<"}">>),
     Token("Terminator", <<";">>), Token("Return", Kw("return")),
     Token("Integer", <<"1">>), Token("Add", <<"+">>),
     Token("If", Kw("if")), Token("Then", Kw("then")), Token("Else", Kw("else")),
     Token("OpenGrouper", <<"(">>), Token("CloseGrouper", <<")">>)}

TokenStreams == UNION {[1..n -> TokenAlphabet] : n \in 0..MaxTokens}

\* a text that tokenizes to the tokens ts: their literals, a space after each
RECURSIVE Render(_)
Render(ts) == IF ts = <<>> THEN <<>> ELSE ts[1].str \o <<" ">> \o Render(Tail(ts))

\* the state in which main calls Parser::parse, tokenize having returned ts and EOF
Tokenized(ts) ==
    /\ phase = "parse"
    /\ characters = Render(ts)
    /\ str_index = Len(Render(ts))
    /\ token_list = Append(ts, EOFToken)
    /\ index = 0
    /\ program = NoNode
    /\ parse_err = "none"
    /\ current_scope = <<>>
    /\ ctl = Idle
    /\ kont = <<>>
    /\ result = Null
    /\ error = "none"
    /\ output = <<>>
    /\ last_block = NoBlock

InitParse == \E ts \in TokenStreams : Tokenized(ts)

NextParse == Parse

SpecParse == InitParse /\ [][NextParse]_vars

-----------------------------------------------------------------------------
(* Properties.                                                              *)

Terminal == {"done", "abort", "parse_error", "lex_error"}

\* the frames of a chain that define name, and the innermost of them
Defining(scope, name) == {d \in 1..Len(scope) : name \in DOMAIN scope[d]}

Nearest(scope, name) ==
    CHOOSE d \in Defining(scope, name) : \A e \in Defining(scope, name) : e <= d

\* the value of an integer literal
NumberOf(lit) == ParseI32(lit)[1]

\* C1: every eval_block_vec call returns with the scope chain as deep as it
\* was when the call was made, whether it returns after its last statement
\* or through a Return statement.
BlockBalanced == last_block.via # "none" => last_block.exit = last_block.entry

\* C2: when a block finishes (off its end or by a return), every name that the
\* enclosing chain of frames defines is looked up to the enclosing chain's
\* value: nothing the block set is still visible.
NestedSetDoesNotLeak ==
    [][(BlockFallOff \/ BlockReturnExit) =>
        LET enclosing == SubSeq(current_scope', 1, last_block'.entry)
        IN  \A d \in 1..Len(enclosing) : \A name \in DOMAIN enclosing[d] :
                get(current_scope', name) = get(enclosing, name)]_vars

\* C3: the conditional chain of the specification, a statement of a block
\* whose selected branch is `return 2`, makes the block yield Integer 2
\* (as written, and written with the call syntax of the grammar).
IfChainReturns ==
    characters \in {SrcIfChain, SrcIfChainCall} /\ phase \in Terminal
        => phase = "done" /\ result = Integer(2)

\* C4: a reassignment (`change x to e`) overwrites x in the innermost frame
\* that defines it and changes nothing else: no frame is added, no frame gains
\* or loses a name, no other binding changes; when no frame defines x the
\* evaluation aborts with the reassignment-of-undefined error and the scope
\* chain is as it was.
ReassignNearest ==
    [][phase = "eval" /\ Returned("assign") /\ Top.change =>
        LET x == Top.ident
        IN  IF Defining(current_scope, x) = {}
            THEN /\ phase' = "abort"
                 /\ error' = "reassign_undefined"
                 /\ current_scope' = current_scope
            ELSE /\ phase' = "eval"
                 /\ Len(current_scope') = Len(current_scope)
                 /\ \A d \in 1..Len(current_scope) :
                        /\ DOMAIN current_scope'[d] = DOMAIN current_scope[d]
                        /\ \A name \in DOMAIN current_scope[d] :
                               current_scope'[d][name] =
                                   IF d = Nearest(current_scope, x) /\ name = x
                                   THEN ctl.val
                                   ELSE current_scope[d][name]]_vars

\* C4, its case reached: in { set y to 1; { set z to 2; change y to 5; }; .. }
\* the inner block has changed the outer block's y and has not defined y itself
ReassignedOuter ==
    /\ phase = "eval"
    /\ Len(current_scope) = 3
    /\ <<"y">> \notin DOMAIN current_scope[3]
    /\ <<"y">> \in DOMAIN current_scope[2]
    /\ current_scope[2][<<"y">>] = Integer(5)

\* C5: `a - b - c` evaluates to (a - b) - c and `a + b * c` to a + (b * c),
\* for every choice of the literals; so 10 - 3 - 2 is 5 and 2 + 3 * 4 is 14.
LeftFoldPrecedence ==
    \A a \in Literals, b \in Literals, c \in Literals :
        /\ characters = SrcSubChain(a, b, c) /\ phase \in Terminal =>
               /\ phase = "done"
               /\ result = Integer((NumberOf(a) - NumberOf(b)) - NumberOf(c))
        /\ characters = SrcPrecedence(a, b, c) /\ phase \in Terminal =>
               /\ phase = "done"
               /\ result = Integer(NumberOf(a) + (NumberOf(b) * NumberOf(c)))

\* C5, its case reached: { return 10 - 3 - 2; } has yielded Integer 5
LeftFoldReached ==
    /\ phase = "done"
    /\ characters = SrcSubChain(<<"1", "0">>, <<"3">>, <<"2">>)
    /\ result = Integer(5)

\* the string "ab" n times
AbTimes(n) == [k \in 1..(2 * n) |-> IF k % 2 = 1 THEN "a" ELSE "b"]

\* C8 and its amendment agree on a count reached by evaluation: "ab" * (a - b)
\* is "ab" repeated a - b times when a - b >= 0 (the empty string for 0) and
\* aborts with the negative-repeat-count error when a - b < 0; and "ab" * 3
\* is "ababab".
RepeatByCount ==
    /\ characters = SrcRepeat /\ phase \in Terminal =>
           phase = "done" /\ result = String(AbTimes(3))
    /\ \A a \in Literals, b \in Literals :
           characters = SrcRepeatBy(a, b) /\ phase \in Terminal =>
               IF NumberOf(a) - NumberOf(b) >= 0
               THEN phase = "done" /\ result = String(AbTimes(NumberOf(a) - NumberOf(b)))
               ELSE phase = "abort" /\ error = "repeat_negative"

\* C8 as stated: ... and evaluating { return "x" * -1; } aborts with the
\* arithmetic (negative repeat count) error.
RepeatMinusOneArithmetic ==
    /\ RepeatByCount
    /\ characters = SrcRepeatMinus /\ phase \in Terminal =>
           phase = "abort" /\ error = "repeat_negative"

\* C8 as amended: ... and { return "x" * -1; } is refused by the parser, which
\* has no factor that starts with `-`: no evaluation takes place.
RepeatMinusOneParseError ==
    /\ RepeatByCount
    /\ characters = SrcRepeatMinus /\ phase \in Terminal =>
           phase = "parse_error" /\ parse_err = "factor"

\* C8, its case reached: a negative count, reached by evaluation, has aborted
\* the program
RepeatNegativeReached ==
    /\ phase = "abort"
    /\ error = "repeat_negative"
    /\ characters = SrcRepeatBy(<<"2">>, <<"4">>)

\* C6: each iteration of the lexer loop either takes a rule and moves the
\* cursor forward by at least one character, staying within the text, or
\* finds no rule and aborts; and when the loop ends the token list ends with
\* the EOF token, which occurs nowhere else in it.
LexTerminates ==
    [][phase = "lex" =>
        /\ str_index <= Len(characters)
        /\ IF str_index < Len(characters)
           THEN IF FirstRule(characters, str_index) # 0
                THEN /\ phase' = "lex"
                     /\ str_index' > str_index
                     /\ str_index' <= Len(characters)
                ELSE phase' = "lex_error"
           ELSE /\ phase' = "parse"
                /\ token_list'[Len(token_list')] = EOFToken
                /\ \A k \in 1..(Len(token_list') - 1) :
                       token_list'[k].token_type # "EOF"]_vars

\* C6, its case reached: a text of three characters or more has been
\* tokenized to the end
LexFinished ==
    /\ phase = "parse"
    /\ Len(characters) >= 3
    /\ Len(token_list) >= 3

\* C7: with the cursor at the text of a keyword, the lexer emits the keyword
\* token, whose literal is the keyword, and stops right after the keyword when
\* the next character exists and is no identifier character; otherwise (an
\* identifier character follows, or the text ends) it emits one Ident token
\* holding the whole identifier that starts there.
KeywordOrIdent ==
    [][phase = "lex" =>
        \A r \in {q \in 1..Len(expressions) : expressions[q].shape = "keyword"} :
            LET kw == expressions[r].text
                n == Len(kw)
                m == n + RunLen(characters, str_index + n, IdentChar)
            IN  StartsWith(characters, str_index, kw) =>
                    IF str_index + n < Len(characters)
                       /\ characters[str_index + n + 1] \notin IdentChar
                    THEN /\ token_list' = Append(token_list, Token(expressions[r].type, kw))
                         /\ str_index' = str_index + n
                    ELSE /\ token_list' = Append(token_list,
                                Token("Ident", SubSeq(characters, str_index + 1, str_index + m)))
                         /\ str_index' = str_index + m]_vars

\* C7, its case reached: `to;` has given the keyword token and the cursor is
\* on the `;`
KeywordEmitted ==
    /\ phase = "lex"
    /\ token_list = <<Token("AssignmentOp", Kw("to"))>>
    /\ str_index = 2
    /\ Len(characters) > 2
    /\ characters[3] = ";"

\* C9: parse succeeds only when the top-level statement ends right before the
\* EOF token, and then the parser index is the number of tokens and the
\* Program is that statement; in every other case (a token left over, an
\* unexpected token, no token left) it panics and there is no Program.
ParseConsumesAll ==
    LET top == Call("parse_statement", token_list, 0, <<>>)
    IN  /\ phase = "parsed" =>
               /\ index = Len(token_list)
               /\ token_list[index].token_type = "EOF"
               /\ parse_err = "none"
               /\ top.ok
               /\ top.idx = Len(token_list) - 1
               /\ program = top.node
        /\ phase = "parse_error" =>
               /\ program = NoNode
               /\ parse_err \in {"expected", "factor", "ran_out", "integer", "condition"}
        /\ phase \in {"parsed", "parse_error"} /\ top.ok /\ top.idx # Len(token_list) - 1 =>
               phase = "parse_error" /\ parse_err = "expected"

\* C9, its case reached: a vector of five tokens has been parsed
ParsedAll ==
    /\ phase = "parsed"
    /\ Len(token_list) = 5
    /\ index = 5

\* C10: with the cursor at `--`, the lexer skips to the end of that line (or
\* of the text, when the line is the last and has no newline) and emits no
\* token.
CommentSkipped ==
    [][phase = "lex" /\ StartsWith(characters, str_index, <<"-", "-">>) =>
        LET nl == FirstOf(characters, str_index, 1, {"\n"})
            end_of_line == IF nl = 0 THEN Len(characters) ELSE str_index + nl - 1
        IN  /\ phase' = "lex"
            /\ token_list' = token_list
            /\ str_index' \in {end_of_line, end_of_line + 1}]_vars

\* C11: a block pushes a frame and evaluates its statements in order; at a
\* Return statement it evaluates the inner statement and yields its value at
\* once, with no later statement evaluated and the block's frame still on the
\* chain; with no Return it pops the frame after the last statement and yields
\* Null.  So { call print with (1); return 2; call print with (3); } prints
\* only 1, yields 2 and ends one frame above the root, and
\* { call print with (1); call print with (2); } prints 1 then 2, yields Null
\* and ends at the root.
BlockReturnKeepsFrame ==
    /\ [](/\ characters = SrcBlockOrder /\ phase \in Terminal =>
                /\ phase = "done"
                /\ result = Integer(2)
                /\ output = << <<"1">> >>
                /\ Len(current_scope) = 2
          /\ characters = SrcBlockEnd /\ phase \in Terminal =>
                /\ phase = "done"
                /\ result = Null
                /\ output = << <<"1">>, <<"2">> >>
                /\ Len(current_scope) = 1)
    /\ [][phase = "eval" =>
            /\ ctl.mode = "stmt" /\ ctl.node.kind = "BlockStatement" =>
                   /\ Len(current_scope') = Len(current_scope) + 1
                   /\ SubSeq(current_scope', 1, Len(current_scope)) = current_scope
                   /\ DOMAIN current_scope'[Len(current_scope')] = {}
                   /\ ctl'.mode = "block" /\ ctl'.i = 1
                   /\ ctl'.statements = ctl.node.statements
            /\ ctl.mode = "block" /\ ctl.i <= Len(ctl.statements) =>
                   /\ ctl'.mode = "stmt"
                   /\ ctl'.node = IF ctl.statements[ctl.i].kind = "Return"
                                  THEN ctl.statements[ctl.i].statement
                                  ELSE ctl.statements[ctl.i]
                   /\ current_scope' = current_scope
            /\ Returned("block_stmt") =>
                   /\ ctl'.mode = "block"
                   /\ ctl'.statements = Top.statements
                   /\ ctl'.i = Top.i + 1
                   /\ current_scope' = current_scope
            /\ Returned("block_return") =>
                   /\ ctl' = ctl
                   /\ kont' = Pop
                   /\ current_scope' = current_scope
                   /\ Len(current_scope') > Top.depth
            /\ ctl.mode = "block" /\ ctl.i > Len(ctl.statements) =>
                   /\ ctl' = [mode |-> "value", val |-> Null]
                   /\ current_scope' = SubSeq(current_scope, 1, Len(current_scope) - 1)]_vars

\* C11, its case reached: the block with a Return in the middle has yielded 2
\* after printing 1 only, and its frame is still on the chain
BlockReturnedEarly ==
    /\ phase = "done"
    /\ characters = SrcBlockOrder
    /\ result = Integer(2)
    /\ output = << <<"1">> >>
    /\ Len(current_scope) = 2

\* the boolean conversion rule, for the kinds it accepts
Truthy(v) ==
    \/ v.type = "Boolean" /\ v.v = TRUE
    \/ v.type = "Integer" /\ v.v # 0
    \/ v.type = "String" /\ v.v # <<>>

\* C12: an If takes its branches in order: a branch without a condition is
\* selected; a branch with one has the condition evaluated and is selected
\* when it converts to true, and otherwise the next branch is taken; the
\* consequent of the selected branch is the If's value and nothing else of the
\* If is evaluated after it; past the last branch the If yields Null; a
\* condition that is no Boolean, Integer or String aborts with the conversion
\* error.  With blocks that print as conditions, SrcIfOrder evaluates the
\* conditions 1 and 3 only, no unselected consequent, and yields 5.
IfFirstSelected ==
    /\ [](/\ characters = SrcIfOrder /\ phase \in Terminal =>
                /\ phase = "done"
                /\ result = Integer(5)
                /\ output = << <<"1">>, <<"3">> >>
          /\ characters = SrcIfNull /\ phase \in Terminal =>
                phase = "done" /\ result = Null
          /\ characters = SrcIfBadCond /\ phase \in Terminal =>
                phase = "abort" /\ error = "cannot_convert")
    /\ [][phase = "eval" =>
            /\ ctl.mode = "if" /\ ctl.i > Len(ctl.conditions) =>
                   /\ ctl' = [mode |-> "value", val |-> Null]
                   /\ kont' = kont
            /\ ctl.mode = "if" /\ ctl.i <= Len(ctl.conditions) =>
                   LET branch == ctl.conditions[ctl.i]
                   IN  /\ ctl'.mode = "stmt"
                       /\ IF branch.cond = <<>>
                          THEN ctl'.node = branch.consequent /\ kont' = kont
                          ELSE /\ ctl'.node = branch.cond[1]
                               /\ Len(kont') = Len(kont) + 1
                               /\ kont'[Len(kont')].k = "if_cond"
                               /\ kont'[Len(kont')].i = ctl.i
            /\ Returned("if_cond") =>
                   IF ctl.val.type \notin {"Boolean", "Integer", "String"}
                   THEN phase' = "abort" /\ error' = "cannot_convert"
                   ELSE /\ phase' = "eval"
                        /\ kont' = Pop
                        /\ IF Truthy(ctl.val)
                           THEN ctl' = [mode |-> "stmt",
                                        node |-> Top.conditions[Top.i].consequent]
                           ELSE ctl' = [mode |-> "if", conditions |-> Top.conditions,
                                        i |-> Top.i + 1]]_vars

\* C12, its case reached: the chain has yielded the consequent of its second
\* branch, with the first two conditions evaluated and nothing else
IfSecondBranchTaken ==
    /\ phase = "done"
    /\ characters = SrcIfOrder
    /\ result = Integer(5)
    /\ output = << <<"1">>, <<"3">> >>

\* C13: a call evaluates its callee first.  When that is a native, the
\* arguments are evaluated one by one from the first to the last, each value
\* appended to the list, and the native runs once on the whole list; when it
\* is anything else the evaluation aborts with the not-callable error before
\* any argument is evaluated.  With printing blocks as arguments, SrcCallOrder
\* prints 1 and 3 (the arguments, in order) and then 2 and 4 (the native, on
\* the values in order); SrcCallBlockCallee prints 1 (the callee) and never 2
\* (its argument).
CallCalleeThenArgs ==
    /\ [](/\ characters = SrcCallOrder /\ phase \in Terminal =>
                /\ phase = "done"
                /\ result = Null
                /\ output = << <<"1">>, <<"3">>, <<"2">>, <<"4">> >>
          /\ characters = SrcCallBlockCallee /\ phase \in Terminal =>
                /\ phase = "abort"
                /\ error = "cannot_call"
                /\ output = << <<"1">> >>
          /\ characters = SrcCallInteger /\ phase \in Terminal =>
                /\ phase = "abort"
                /\ error = "cannot_call"
                /\ output = <<>>)
    /\ [][phase = "eval" =>
            /\ ctl.mode = "stmt" /\ ctl.node.kind = "FunctionCall" =>
                   /\ ctl' = [mode |-> "stmt", node |-> ctl.node.func]
                   /\ Len(kont') = Len(kont) + 1
                   /\ kont'[Len(kont')].k = "call_func"
                   /\ kont'[Len(kont')].args = ctl.node.args
            /\ Returned("call_func") =>
                   IF ctl.val.type = "RustFunction"
                   THEN /\ ctl' = [mode |-> "args", func |-> ctl.val.v,
                                   args |-> Top.args, vals |-> <<>>]
                        /\ kont' = Pop
                   ELSE /\ phase' = "abort"
                        /\ error' = "cannot_call"
                        /\ output' = output
            /\ ctl.mode = "args" /\ Len(ctl.vals) < Len(ctl.args) =>
                   /\ ctl' = [mode |-> "stmt", node |-> ctl.args[Len(ctl.vals) + 1]]
                   /\ output' = output
            /\ Returned("call_arg") =>
                   /\ ctl' = [mode |-> "args", func |-> Top.func, args |-> Top.args,
                              vals |-> Append(Top.vals, ctl.val)]
                   /\ kont' = Pop
            /\ ctl.mode = "args" /\ Len(ctl.vals) = Len(ctl.args) =>
                   /\ ctl.func = "s_print" =>
                          \E n \in 0..Len(ctl.vals) :
                              /\ Len(output') = Len(output) + n
                              /\ \A k \in 1..n :
                                     /\ ctl.vals[k].type \in {"String", "Integer", "Boolean"}
                                     /\ output'[Len(output) + k] = Display(ctl.vals[k])
                              /\ IF n = Len(ctl.vals)
                                 THEN ctl' = [mode |-> "value", val |-> Null]
                                 ELSE phase' = "abort"
                   /\ ctl.func # "s_print" => output' = output
                   /\ ctl'.mode = "value" \/ phase' = "abort"]_vars

\* C13, its case reached: print has run on the values of its two arguments
\* after both were evaluated, the first before the second
CallArgsInOrder ==
    /\ phase = "done"
    /\ characters = SrcCallOrder
    /\ output = << <<"1">>, <<"3">>, <<"2">>, <<"4">> >>

\* the names seeded into the root frame, and what each is seeded with
NativeNames == {<<"p", "r", "i", "n", "t">>, <<"t", "o", "_", "b", "o", "o", "l">>}

NativeOf(name) ==
    IF name = <<"p", "r", "i", "n", "t">> THEN RustFunction("s_print")
    ELSE RustFunction("s_to_bool")

\* an interpreter exists
Running == phase \in {"eval", "done", "abort"}

\* the root frame is there, no pop has been tried on it, and lookup gives the
\* binding of the nearest frame that defines the name
RootStays ==
    Running =>
        /\ Len(current_scope) >= 1
        /\ error # "unwrap_none"
        /\ ctl.mode = "block" /\ ctl.i > Len(ctl.statements) => Len(current_scope) >= 2
        /\ \A n \in NativeNames :
               /\ n \in DOMAIN current_scope[1]
               /\ get(current_scope, n) = <<current_scope[Nearest(current_scope, n)][n]>>

\* C14 as stated: the root frame is never popped (depth >= 1, no pop of a
\* frame without parent), and print and to_bool stay bound in the root frame
\* to the natives they were seeded with, which is what lookup gives from any
\* depth unless a nearer frame defines the name.
RootKeepsNatives ==
    /\ RootStays
    /\ Running =>
           \A n \in NativeNames :
               /\ current_scope[1][n] = NativeOf(n)
               /\ Nearest(current_scope, n) = 1 => get(current_scope, n) = <<NativeOf(n)>>

\* C14 as amended: the root frame is never popped (depth >= 1, no pop of a
\* frame without parent); print and to_bool are bound to the natives when the
\* interpreter starts, stay names of the root frame, and their root binding
\* changes only by an assignment that writes the root frame: a `set` of the
\* name while the root is the current frame, or a `change` of the name while
\* the root is the nearest frame that defines it; lookup gives the binding of
\* the nearest defining frame from any depth.
RootNeverPopped ==
    /\ []RootStays
    /\ [][/\ phase = "parsed" /\ phase' = "eval" =>
                /\ Len(current_scope') = 1
                /\ \A n \in NativeNames :
                       n \in DOMAIN current_scope'[1] /\ current_scope'[1][n] = NativeOf(n)
          /\ phase = "eval" =>
                \A n \in NativeNames :
                    current_scope'[1][n] # current_scope[1][n] =>
                        /\ Returned("assign")
                        /\ Top.ident = n
                        /\ current_scope'[1][n] = ctl.val
                        /\ IF Top.change THEN Nearest(current_scope, n) = 1
                           ELSE Len(current_scope) = 1]_vars

\* C14, its case reached: two frames above the root, the name print has been
\* looked up and has given the native of the root frame
NativeFromDepth ==
    /\ phase = "eval"
    /\ Len(current_scope) >= 3
    /\ \A d \in 2..Len(current_scope) : DOMAIN current_scope[d] = {}
    /\ ctl.mode = "value"
    /\ ctl.val = RustFunction("s_print")

=============================================================================
